---- MODULE Spec2Model ----
(***************************************************************************)
(* Smasher: a battle-log analyser.  read_battle_log turns the lines of a   *)
(* CSV file into a BattleLog, analyze counts its actions by category and   *)
(* by action id.                                                           *)
(*                                                                         *)
(* A text is a sequence of one-character strings.  A u32 is kept as two    *)
(* decimal limbs <<hi, lo>> (value hi * 10^5 + lo) so that the whole range *)
(* 0 .. 2^32-1 and the first value beyond it can be written down.          *)
(***************************************************************************)
EXTENDS Integers, Sequences, FiniteSets, TLC

VARIABLES
    file,           \* the lines the reader yields: [ok, text], ok = FALSE for an I/O fault
    pc,             \* position of run(): "start", "actions", "parsed", "done"
    pos,            \* lines taken from the iterator so far
    player_info,    \* local of read_battle_log after parse_player_info
    actions,        \* the Vec<Action> being built by parse_actions
    result,         \* what read_battle_log returned (Pending before it returns)
    analysis,       \* what analyze returned (NoAnalysis before it runs)
    action_id,      \* argument of a direct call of ActionType::from_action_id
    classified,     \* its return value
    counts,         \* an ActionCounts value
    ratios,         \* <<attack_ratio, shield_ratio, dodge_ratio>> of counts
    most_frequent   \* most_frequent_action of counts

vars == <<file, pc, pos, player_info, actions, result, analysis,
          action_id, classified, counts, ratios, most_frequent>>

parseVars == <<file, pc, pos, player_info, actions, result, analysis>>
classifyVars == <<action_id, classified>>
countVars == <<counts, ratios, most_frequent>>

-----------------------------------------------------------------------------
(* Bounds *)

MaxActionLines == 3     \* lines after the header in a file of Spec
MaxRecords == 4         \* action lines in a file of SpecFreq
MaxCodeLen == 2         \* length of the strings given to from_action_id
MaxTotal == 6           \* increments applied to an ActionCounts
MaxIdLen == 2           \* length of the student ids of SpecHeader

-----------------------------------------------------------------------------
(* Text *)

Min(S) == CHOOSE x \in S : \A y \in S : x <= y
Max(S) == CHOOSE x \in S : \A y \in S : x >= y

DigitChars == <<"0", "1", "2", "3", "4", "5", "6", "7", "8", "9">>

IsDigit(c) == \E i \in 1..10 : DigitChars[i] = c

DigitVal(c) == (CHOOSE i \in 1..10 : DigitChars[i] = c) - 1

IsWhitespace(c) == c \in {" ", "\t"}

\* str::trim: drop leading and trailing whitespace
Trim(s) ==
    LET keep == {i \in 1..Len(s) : ~IsWhitespace(s[i])}
    IN  IF keep = {} THEN <<>> ELSE SubSeq(s, Min(keep), Max(keep))

\* str::split(','): the fields between commas, one more than there are commas
RECURSIVE Split(_)
Split(s) ==
    LET commas == {i \in 1..Len(s) : s[i] = ","}
    IN  IF commas = {} THEN <<s>>
        ELSE LET i == Min(commas)
             IN  <<SubSeq(s, 1, i - 1)>> \o Split(SubSeq(s, i + 1, Len(s)))

\* byte value of a character, for the order of str::cmp
ByteOf(c) ==
    CASE c = "\t" -> 9
      [] c = " " -> 32
      [] c = "+" -> 43
      [] c = "," -> 44
      [] c = "-" -> 45
      [] c = "." -> 46
      [] IsDigit(c) -> 48 + DigitVal(c)
      [] c = "D" -> 68
      [] c = "N" -> 78
      [] c = "S" -> 83
      [] c = "a" -> 97
      [] c = "b" -> 98
      [] c = "c" -> 99
      [] c = "d" -> 100
      [] c = "e" -> 101
      [] c = "f" -> 102
      [] c = "i" -> 105
      [] c = "n" -> 110
      [] c = "s" -> 115
      [] c = "u" -> 117
      [] c = "x" -> 120
      [] c = "y" -> 121

\* Ord for str: "less", "equal" or "greater", byte by byte, a prefix first
RECURSIVE StrCmp(_, _)
StrCmp(a, b) ==
    IF a = <<>> /\ b = <<>> THEN "equal"
    ELSE IF a = <<>> THEN "less"
    ELSE IF b = <<>> THEN "greater"
    ELSE IF ByteOf(Head(a)) < ByteOf(Head(b)) THEN "less"
    ELSE IF ByteOf(Head(a)) > ByteOf(Head(b)) THEN "greater"
    ELSE StrCmp(Tail(a), Tail(b))

-----------------------------------------------------------------------------
(* u32 *)

U32_MAX == <<42949, 67295>>

U32Zero == <<0, 0>>

\* order of two-limb values
LimbLeq(a, b) == a[1] < b[1] \/ (a[1] = b[1] /\ a[2] <= b[2])

\* 10 * v + d on limbs, with no width
MulAdd10(v, d) ==
    LET low == v[2] * 10 + d
    IN  <<v[1] * 10 + low \div 100000, low % 100000>>

\* the digit loop of u32::from_str: checked_mul(10) then checked_add(digit)
RECURSIVE AccumulateU32(_, _)
AccumulateU32(digits, acc) ==
    IF digits = <<>> THEN [ok |-> TRUE, val |-> acc]
    ELSE IF ~IsDigit(Head(digits)) THEN [ok |-> FALSE, val |-> U32Zero]
    ELSE LET next == MulAdd10(acc, DigitVal(Head(digits)))
         IN  IF ~LimbLeq(next, U32_MAX) THEN [ok |-> FALSE, val |-> U32Zero]
             ELSE AccumulateU32(Tail(digits), next)

\* str::parse::<u32>: an optional '+', then at least one decimal digit
ParseU32(src) ==
    IF src = <<>> THEN [ok |-> FALSE, val |-> U32Zero]
    ELSE IF Len(src) = 1 /\ src[1] \in {"+", "-"} THEN [ok |-> FALSE, val |-> U32Zero]
    ELSE IF src[1] = "+" THEN AccumulateU32(Tail(src), U32Zero)
    ELSE AccumulateU32(src, U32Zero)

-----------------------------------------------------------------------------
(* f64 *)

\* length of the longest prefix of s made of decimal digits
DigitPrefixLen(s) ==
    LET non == {i \in 1..Len(s) : ~IsDigit(s[i])}
    IN  IF non = {} THEN Len(s) ELSE Min(non) - 1

RECURSIVE DigitsValue(_, _)
DigitsValue(ds, acc) ==
    IF ds = <<>> THEN acc
    ELSE DigitsValue(Tail(ds), acc * 10 + DigitVal(Head(ds)))

\* a decimal m * 10^e without trailing zeros in m
RECURSIVE NormDecimal(_, _)
NormDecimal(m, e) ==
    IF m = 0 THEN <<0, 0>>
    ELSE IF m % 10 = 0 THEN NormDecimal(m \div 10, e + 1)
    ELSE <<m, e>>

ToLower(c) ==
    CASE c = "A" -> "a" [] c = "F" -> "f" [] c = "I" -> "i" [] c = "N" -> "n"
      [] c = "T" -> "t" [] c = "Y" -> "y" [] c = "E" -> "e" [] c = "S" -> "s"
      [] c = "D" -> "d" [] OTHER -> c

F64Err == [ok |-> FALSE, val |-> [kind |-> "none", neg |-> FALSE, mant |-> 0, exp |-> 0]]

F64Ok(kind, neg, mant, exp) ==
    [ok |-> TRUE, val |-> [kind |-> kind, neg |-> neg, mant |-> mant, exp |-> exp]]

\* digits [ '.' digits ] [ ('e' | 'E') [sign] digits ], at least one mantissa digit,
\* nothing after it
ParseNumber(s, neg) ==
    LET ni == DigitPrefixLen(s)
        rest1 == SubSeq(s, ni + 1, Len(s))
        hasDot == rest1 # <<>> /\ rest1[1] = "."
        afterDot == IF hasDot THEN Tail(rest1) ELSE rest1
        nf == IF hasDot THEN DigitPrefixLen(afterDot) ELSE 0
        rest2 == SubSeq(afterDot, nf + 1, Len(afterDot))
        mant == DigitsValue(SubSeq(s, 1, ni) \o SubSeq(afterDot, 1, nf), 0)
    IN  IF ni + nf = 0 THEN F64Err
        ELSE IF rest2 = <<>> THEN
            LET d == NormDecimal(mant, 0 - nf) IN F64Ok("num", neg, d[1], d[2])
        ELSE IF ToLower(rest2[1]) # "e" THEN F64Err
        ELSE LET e1 == Tail(rest2)
                 eneg == e1 # <<>> /\ e1[1] = "-"
                 e2 == IF e1 # <<>> /\ e1[1] \in {"+", "-"} THEN Tail(e1) ELSE e1
                 ne == DigitPrefixLen(e2)
                 ev == DigitsValue(e2, 0)
             IN  IF ne = 0 \/ ne < Len(e2) THEN F64Err
                 ELSE LET d == NormDecimal(mant, (IF eneg THEN 0 - ev ELSE ev) - nf)
                      IN  F64Ok("num", neg, d[1], d[2])

\* "inf", "infinity", "nan" in any letter case
ParseInfNan(s, neg) ==
    LET low == [i \in 1..Len(s) |-> ToLower(s[i])]
    IN  IF low = <<"n", "a", "n">> THEN F64Ok("nan", neg, 0, 0)
        ELSE IF low \in {<<"i", "n", "f">>, <<"i", "n", "f", "i", "n", "i", "t", "y">>}
             THEN F64Ok("inf", neg, 0, 0)
        ELSE F64Err

\* a number if it is one, else one of the special values
NumberOrInfNan(num, s, neg) == IF num.ok THEN num ELSE ParseInfNan(s, neg)

\* the text after the sign
Unsigned(s, neg) ==
    IF s = <<>> THEN F64Err ELSE NumberOrInfNan(ParseNumber(s, neg), s, neg)

\* str::parse::<f64>; the value is kept as an exact decimal
ParseF64(src) ==
    IF src = <<>> THEN F64Err
    ELSE Unsigned(IF src[1] \in {"+", "-"} THEN Tail(src) ELSE src, src[1] = "-")

-----------------------------------------------------------------------------
(* model.rs *)

AttackArms ==
    { <<"j", "1">>, <<"j", "2">>,
      <<"s", "t">>, <<"u", "t">>, <<"d", "t">>, <<"D", "A">>,
      <<"s", "s">>, <<"u", "s">>, <<"d", "s">>,
      <<"n", "a">>, <<"f", "a">>, <<"b", "a">>, <<"u", "a">>, <<"d", "a">>,
      <<"n", "b", "_", "c">>, <<"n", "b", "_", "a">>, <<"s", "b">>,
      <<"u", "b", "_", "g">>, <<"u", "b", "_", "a">>,
      <<"d", "b", "_", "g">>, <<"d", "b", "_", "a">>,
      <<"g">>, <<"g", "a">>, <<"f", "t", "h">>, <<"b", "t", "h">>,
      <<"u", "t", "h">>, <<"d", "t", "h">>,
      <<"f", "c">>, <<"b", "c">>, <<"u", "c">>, <<"d", "c">> }

\* faulty variant: the id is matched without regard to letter case
from_action_id_AnyCase(id) ==
    IF [i \in 1..Len(id) |-> ToLower(id[i])] = <<"s">> THEN "Shield"
    ELSE IF [i \in 1..Len(id) |-> ToLower(id[i])]
                \in {<<"n", "d">>, <<"s", "d">>, <<"a", "d">>} THEN "Dodge"
    ELSE "Attack"

from_action_id(id) ==
    IF id = <<"s">> THEN "Shield"
    ELSE IF id \in {<<"n", "d">>, <<"s", "d">>, <<"a", "d">>} THEN "Dodge"
    ELSE IF id \in AttackArms THEN "Attack"
    ELSE "Attack"

Action_new(timestamp, id) ==
    [timestamp |-> timestamp, action_type |-> from_action_id(id), original_id |-> id]

PlayerInfo_new(student_id, match_number) ==
    [student_id |-> student_id, match_number |-> match_number]

BattleLog_new(info, acts) == [player_info |-> info, actions |-> acts]

-----------------------------------------------------------------------------
(* error.rs *)

\* a SmasherError: its variant, the line number its message carries (0 when the
\* message carries none) and the text its message quotes
SmasherError(kind, line_number, text) ==
    [kind |-> kind, line_number |-> line_number, text |-> text]

NoError == SmasherError("none", 0, <<>>)

-----------------------------------------------------------------------------
(* parser.rs *)

NoPlayer == PlayerInfo_new(<<>>, U32Zero)

NoAction == [timestamp |-> F64Err.val, action_type |-> "none", original_id |-> <<>>]

NoLog == BattleLog_new(NoPlayer, <<>>)

\* faulty variant: the student id is kept as split, not trimmed
parse_player_info_Untrimmed(lines) ==
    IF lines = <<>> THEN
        [ok |-> FALSE, info |-> NoPlayer, err |-> SmasherError("EmptyData", 0, <<>>)]
    ELSE IF ~lines[1].ok THEN
        [ok |-> FALSE, info |-> NoPlayer, err |-> SmasherError("IoError", 0, <<>>)]
    ELSE IF Len(Split(lines[1].text)) # 2 THEN
        [ok |-> FALSE, info |-> NoPlayer,
         err |-> SmasherError("InvalidFormat", 0, lines[1].text)]
    ELSE IF ~ParseU32(Trim(Split(lines[1].text)[2])).ok THEN
        [ok |-> FALSE, info |-> NoPlayer,
         err |-> SmasherError("ParseError", 0, Split(lines[1].text)[2])]
    ELSE
        [ok |-> TRUE,
         info |-> PlayerInfo_new(Split(lines[1].text)[1],
                                 ParseU32(Trim(Split(lines[1].text)[2])).val),
         err |-> NoError]

\* parse_player_info on the lines left in the iterator
parse_player_info(lines) ==
    IF lines = <<>> THEN
        [ok |-> FALSE, info |-> NoPlayer, err |-> SmasherError("EmptyData", 0, <<>>)]
    ELSE IF ~lines[1].ok THEN
        [ok |-> FALSE, info |-> NoPlayer, err |-> SmasherError("IoError", 0, <<>>)]
    ELSE
        LET first_line == lines[1].text
            parts == Split(first_line)
        IN  IF Len(parts) # 2 THEN
                [ok |-> FALSE, info |-> NoPlayer,
                 err |-> SmasherError("InvalidFormat", 0, first_line)]
            ELSE
                LET student_id == Trim(parts[1])
                    match_number == ParseU32(Trim(parts[2]))
                IN  IF ~match_number.ok THEN
                        [ok |-> FALSE, info |-> NoPlayer,
                         err |-> SmasherError("ParseError", 0, parts[2])]
                    ELSE
                        [ok |-> TRUE, info |-> PlayerInfo_new(student_id, match_number.val),
                         err |-> NoError]

\* faulty variant: the action id is kept as split, not trimmed
ActionOfTimestamp_Untrimmed(timestamp, parts, line_number) ==
    IF ~timestamp.ok THEN
        [ok |-> FALSE, action |-> NoAction,
         err |-> SmasherError("ParseError", line_number, parts[1])]
    ELSE
        [ok |-> TRUE, action |-> Action_new(timestamp.val, parts[2]),
         err |-> NoError]

\* parse_action_line from the timestamp conversion on
ActionOfTimestamp(timestamp, parts, line_number) ==
    IF ~timestamp.ok THEN
        [ok |-> FALSE, action |-> NoAction,
         err |-> SmasherError("ParseError", line_number, parts[1])]
    ELSE
        [ok |-> TRUE, action |-> Action_new(timestamp.val, Trim(parts[2])),
         err |-> NoError]

\* faulty variant: a line of more than two fields is let through
ActionOfParts_AtLeastTwo(parts, line, line_number) ==
    IF Len(parts) < 2 THEN
        [ok |-> FALSE, action |-> NoAction,
         err |-> SmasherError("InvalidFormat", line_number, line)]
    ELSE ActionOfTimestamp(ParseF64(Trim(parts[1])), parts, line_number)

\* parse_action_line from the field count check on
ActionOfParts(parts, line, line_number) ==
    IF Len(parts) # 2 THEN
        [ok |-> FALSE, action |-> NoAction,
         err |-> SmasherError("InvalidFormat", line_number, line)]
    ELSE ActionOfTimestamp(ParseF64(Trim(parts[1])), parts, line_number)

parse_action_line(line, line_number) == ActionOfParts(Split(line), line, line_number)

\* faulty variant: the header is not counted
ReportedLine_FromOne(i) == i + 1

\* the line number parse_actions hands to parse_action_line for enumerate index i
ReportedLine(i) == i + 2

\* faulty variant: the record goes to the front of the Vec
Push_Front(acts, action) == <<action>> \o acts

\* actions.push(action)
Push(acts, action) == Append(acts, action)

\* let action = parse_action_line(..)?; then the push
PushOrFail(r) ==
    IF r.ok THEN [kind |-> "push", action |-> r.action, err |-> NoError]
    ELSE [kind |-> "err", action |-> NoAction, err |-> r.err]

\* the loop body of parse_actions once the line is trimmed
TrimmedLine(i, trimmed) ==
    IF trimmed = <<>> THEN [kind |-> "continue", action |-> NoAction, err |-> NoError]
    ELSE PushOrFail(parse_action_line(trimmed, ReportedLine(i)))

\* one turn of the loop of parse_actions on the item (i, line_result)
parse_actions_body(i, line_result) ==
    IF ~line_result.ok THEN
        [kind |-> "err", action |-> NoAction, err |-> SmasherError("IoError", 0, <<>>)]
    ELSE TrimmedLine(i, Trim(line_result.text))

Pending == [status |-> "Pending", log |-> NoLog, err |-> NoError]

Ok(log) == [status |-> "Ok", log |-> log, err |-> NoError]

Err(e) == [status |-> "Err", log |-> NoLog, err |-> e]

\* faulty variant: the is_empty check is missing
read_battle_log_end_Unchecked(info, acts) == Ok(BattleLog_new(info, acts))

\* read_battle_log once parse_actions has returned Ok(acts)
read_battle_log_end(info, acts) ==
    IF acts = <<>> THEN Err(SmasherError("EmptyData", 0, <<>>))
    ELSE Ok(BattleLog_new(info, acts))

-----------------------------------------------------------------------------
(* ActionCounts; a ratio (f64) is kept as the exact fraction <<num, den>> in *)
(* lowest terms                                                             *)

RECURSIVE GCD(_, _)
GCD(a, b) == IF b = 0 THEN a ELSE GCD(b, a % b)

Rat(n, d) == LET g == GCD(n, d) IN <<n \div g, d \div g>>

RatZero == <<0, 1>>

RatAdd(x, y) == Rat(x[1] * y[2] + y[1] * x[2], x[2] * y[2])

RatGeq(x, y) == x[1] * y[2] >= y[1] * x[2]

ActionCounts_new == [attack_count |-> 0, shield_count |-> 0, dodge_count |-> 0]

total(c) == c.attack_count + c.shield_count + c.dodge_count

\* faulty variant: a Shield is counted as an Attack
increment_ShieldAsAttack(c, action_type) ==
    CASE action_type = "Attack" -> [c EXCEPT !.attack_count = @ + 1]
      [] action_type = "Shield" -> [c EXCEPT !.attack_count = @ + 1]
      [] action_type = "Dodge" -> [c EXCEPT !.dodge_count = @ + 1]

increment(c, action_type) ==
    CASE action_type = "Attack" -> [c EXCEPT !.attack_count = @ + 1]
      [] action_type = "Shield" -> [c EXCEPT !.shield_count = @ + 1]
      [] action_type = "Dodge" -> [c EXCEPT !.dodge_count = @ + 1]

attack_ratio(c) ==
    IF total(c) = 0 THEN RatZero ELSE Rat(c.attack_count * 100, total(c))

\* faulty variant: the attack count is divided instead of the shield count
shield_ratio_OfAttack(c) ==
    IF total(c) = 0 THEN RatZero ELSE Rat(c.attack_count * 100, total(c))

shield_ratio(c) ==
    IF total(c) = 0 THEN RatZero ELSE Rat(c.shield_count * 100, total(c))

dodge_ratio(c) ==
    IF total(c) = 0 THEN RatZero ELSE Rat(c.dodge_count * 100, total(c))

\* faulty variant: the comparisons are strict
most_frequent_action_Strict(c) ==
    IF /\ ~RatGeq(shield_ratio(c), attack_ratio(c))
       /\ ~RatGeq(dodge_ratio(c), attack_ratio(c)) THEN "Attack"
    ELSE IF ~RatGeq(dodge_ratio(c), shield_ratio(c)) THEN "Shield"
    ELSE "Dodge"

most_frequent_action(c) ==
    LET attack == attack_ratio(c)
        shield == shield_ratio(c)
        dodge == dodge_ratio(c)
    IN  IF RatGeq(attack, shield) /\ RatGeq(attack, dodge) THEN "Attack"
        ELSE IF RatGeq(shield, dodge) THEN "Shield"
        ELSE "Dodge"

-----------------------------------------------------------------------------
(* analyzer.rs *)

RECURSIVE count_actions_loop(_, _)
count_actions_loop(acts, c) ==
    IF acts = <<>> THEN c
    ELSE count_actions_loop(Tail(acts), increment(c, Head(acts).action_type))

count_actions(battle_log) == count_actions_loop(battle_log.actions, ActionCounts_new)

\* *map.entry(id).or_insert(0) += 1
MapAdd(map, id) ==
    IF id \in DOMAIN map THEN [map EXCEPT ![id] = @ + 1]
    ELSE [k \in DOMAIN map \cup {id} |-> IF k = id THEN 1 ELSE map[k]]

RECURSIVE MapFill(_, _)
MapFill(acts, map) ==
    IF acts = <<>> THEN map
    ELSE MapFill(Tail(acts), MapAdd(map, Head(acts).original_id))

\* BTreeMap::into_iter: the entries by ascending key
RECURSIVE BTreeIter(_)
BTreeIter(map) ==
    IF DOMAIN map = {} THEN <<>>
    ELSE LET k == CHOOSE x \in DOMAIN map :
                      \A y \in DOMAIN map : StrCmp(x, y) \in {"less", "equal"}
         IN  <<<<k, map[k]>>>> \o BTreeIter([j \in DOMAIN map \ {k} |-> map[j]])

\* faulty variant: the counts are compared the other way round
ItemCmp_CountAscending(a, b) ==
    IF a[2] < b[2] THEN "less"
    ELSE IF a[2] > b[2] THEN "greater"
    ELSE StrCmp(a[1], b[1])

\* the comparator of sort_by: b.1.cmp(&a.1).then_with(|| a.0.cmp(&b.0))
ItemCmp(a, b) ==
    IF b[2] < a[2] THEN "less"
    ELSE IF b[2] > a[2] THEN "greater"
    ELSE StrCmp(a[1], b[1])

\* where a stable sort puts x among the sorted items: after all that are not greater
RECURSIVE SortInsert(_, _)
SortInsert(sorted, x) ==
    IF sorted = <<>> THEN <<x>>
    ELSE IF ItemCmp(Head(sorted), x) = "greater" THEN <<x>> \o sorted
    ELSE <<Head(sorted)>> \o SortInsert(Tail(sorted), x)

\* slice::sort_by (stable)
RECURSIVE SortBy(_, _)
SortBy(items, sorted) ==
    IF items = <<>> THEN sorted
    ELSE SortBy(Tail(items), SortInsert(sorted, Head(items)))

count_actions_by_id(battle_log) ==
    LET map == MapFill(battle_log.actions, <<>>)
        items == BTreeIter(map)
    IN  SortBy(items, <<>>)

AnalysisResult_new(battle_log, c, action_id_counts) ==
    [player_info |-> battle_log.player_info, counts |-> c,
     action_id_counts |-> action_id_counts]

analyze(battle_log) ==
    AnalysisResult_new(battle_log, count_actions(battle_log),
                       count_actions_by_id(battle_log))

NoAnalysis == [done |-> FALSE,
               value |-> AnalysisResult_new(NoLog, ActionCounts_new, <<>>)]

-----------------------------------------------------------------------------
(* Inputs *)

Line(text) == [ok |-> TRUE, text |-> text]

IoFault == [ok |-> FALSE, text |-> <<>>]

\* all sequences over S of length lo..hi
SeqsOf(S, lo, hi) == UNION {[1..n -> S] : n \in lo..hi}

HeaderEntries ==
    { Line(<<"b", "1", ",", "1">>),
      Line(<<" ", "b", "1", " ", ",", " ", "2", " ">>),
      Line(<<"b", "1">>),
      Line(<<"b", "1", ",", "x">>),
      Line(<<>>),
      IoFault }

ActionEntries ==
    { Line(<<"1", ".", "0", ",", "u", "s">>),
      Line(<<"2", ",", "s">>),
      Line(<<" ", "3", ".", "5", " ", ",", " ", "n", "d", " ">>),
      Line(<<"+", ".", "5", "e", "1", ",", "a", "d">>),
      Line(<<"1", ",">>),
      Line(<<>>),
      Line(<<" ", "\t">>),
      Line(<<"b", "a", "d">>),
      Line(<<"x", ",", "u", "s">>),
      Line(<<"1", ",", "2", ",", "3">>),
      IoFault }

\* the files of Spec: nothing at all, or a first line and up to MaxActionLines more
Files ==
    {<<>>} \cup
    {<<h>> \o rest : h \in HeaderEntries, rest \in SeqsOf(ActionEntries, 0, MaxActionLines)}

\* the decimal digits of a natural number (Display for u32)
RECURSIVE NatDigits(_)
NatDigits(k) ==
    IF k < 10 THEN <<DigitChars[k + 1]>>
    ELSE NatDigits(k \div 10) \o <<DigitChars[(k % 10) + 1]>>

\* the five digits of a low limb
Pad5(lo) ==
    LET d == NatDigits(lo)
    IN  [i \in 1..(5 - Len(d)) |-> "0"] \o d

\* the decimal numeral of a two-limb value
ToDecimal(n) ==
    IF n[1] = 0 THEN NatDigits(n[2]) ELSE NatDigits(n[1]) \o Pad5(n[2])

\* the header line "ID,N"
HeaderText(id, n) == id \o <<",">> \o ToDecimal(n)

StudentIds == SeqsOf({"b", "1", " "}, 0, MaxIdLen)

\* match numbers a u32 holds: 0, 7, 10, 100000, 100005, 4294967295
MatchNumbersU32 == {<<0, 0>>, <<0, 7>>, <<0, 10>>, <<1, 0>>, <<1, 5>>, U32_MAX}

\* integers past the u32 range: 4294967296, 4295000000, 9999999999
MatchNumbersBeyond == {<<42949, 67296>>, <<42950, 0>>, <<99999, 99999>>}

MatchNumbers == MatchNumbersU32 \cup MatchNumbersBeyond

\* what follows the header in the files of SpecHeader
HeaderTails ==
    { <<>>,
      <<Line(<<"1", ".", "0", ",", "u", "s">>)>>,
      <<Line(<<>>), Line(<<"2", ",", "s">>)>> }

HeaderFiles ==
    {<<Line(HeaderText(id, n))>> \o tail :
        id \in StudentIds, n \in MatchNumbers, tail \in HeaderTails}

\* the strings given to from_action_id: all short ones over a few letters in
\* both cases and the space, and every id the match names
ClassifyInputs ==
    SeqsOf({"s", "n", "d", "a", "u", "S", "N", "D", " "}, 0, MaxCodeLen)
        \cup AttackArms
        \cup {<<"s">>, <<"n", "d">>, <<"s", "d">>, <<"a", "d">>}

\* the action lines of SpecFreq: "1,us", "2,ss", "3,ds", "4,s"
FreqEntries ==
    { Line(<<"1", ",", "u", "s">>),
      Line(<<"2", ",", "s", "s">>),
      Line(<<"3", ",", "d", "s">>),
      Line(<<"4", ",", "s">>) }

FreqFiles ==
    {<<Line(<<"b", "1", ",", "1">>)>> \o rest : rest \in SeqsOf(FreqEntries, 1, MaxRecords)}

ActionTypes == {"Attack", "Shield", "Dodge"}

-----------------------------------------------------------------------------
(* run(): read_battle_log, then analyze *)

ParseIdle ==
    /\ file = <<>>
    /\ pc = "idle"
    /\ pos = 0
    /\ player_info = NoPlayer
    /\ actions = <<>>
    /\ result = Pending
    /\ analysis = NoAnalysis

ClassifyIdle == action_id = <<>> /\ classified = "none"

CountIdle == counts = ActionCounts_new /\ ratios = <<>> /\ most_frequent = "none"

ParseStart(files) ==
    /\ file \in files
    /\ pc = "start"
    /\ pos = 0
    /\ player_info = NoPlayer
    /\ actions = <<>>
    /\ result = Pending
    /\ analysis = NoAnalysis

\* the ? after parse_player_info: keep the header, or return the error
HeaderOutcome(r) ==
    /\ player_info' = r.info
    /\ pc' = IF r.ok THEN "actions" ELSE "done"
    /\ result' = IF r.ok THEN result ELSE Err(r.err)

\* what a turn of the loop leaves: a longer Vec, the same Vec, or the error returned
TurnOutcome(r) ==
    /\ actions' = IF r.kind = "push" THEN Push(actions, r.action) ELSE actions
    /\ pc' = IF r.kind = "err" THEN "done" ELSE "actions"
    /\ result' = IF r.kind = "err" THEN Err(r.err) ELSE result

\* let player_info = parse_player_info(&mut lines)?;
ParsePlayerInfo ==
    /\ pc = "start"
    /\ HeaderOutcome(parse_player_info(file))
    /\ pos' = IF file = <<>> THEN 0 ELSE 1
    /\ UNCHANGED <<file, actions, analysis>>
    /\ UNCHANGED <<classifyVars, countVars>>

\* one turn of the for loop of parse_actions
ParseActionsLoop ==
    /\ pc = "actions"
    /\ pos < Len(file)
    /\ TurnOutcome(parse_actions_body(pos - 1, file[pos + 1]))
    /\ pos' = pos + 1
    /\ UNCHANGED <<file, player_info, analysis>>
    /\ UNCHANGED <<classifyVars, countVars>>

\* the iterator is exhausted: parse_actions returns, read_battle_log finishes
ReadBattleLogEnd ==
    /\ pc = "actions"
    /\ pos = Len(file)
    /\ result' = read_battle_log_end(player_info, actions)
    /\ pc' = IF result'.status = "Ok" THEN "parsed" ELSE "done"
    /\ UNCHANGED <<file, pos, player_info, actions, analysis>>
    /\ UNCHANGED <<classifyVars, countVars>>

\* let result = analyzer::analyze(&battle_log);
Analyze ==
    /\ pc = "parsed"
    /\ analysis' = [done |-> TRUE, value |-> analyze(result.log)]
    /\ pc' = "done"
    /\ UNCHANGED <<file, pos, player_info, actions, result>>
    /\ UNCHANGED <<classifyVars, countVars>>

Init == ParseStart(Files) /\ ClassifyIdle /\ CountIdle

Next ==
    \/ ParsePlayerInfo
    \/ ParseActionsLoop
    \/ ReadBattleLogEnd
    \/ Analyze

Spec == Init /\ [][Next]_vars

\* a direct call of ActionType::from_action_id
Classify ==
    /\ classified = "none"
    /\ classified' = from_action_id(action_id)
    /\ UNCHANGED <<action_id, parseVars, countVars>>

InitClassify ==
    /\ ParseIdle
    /\ action_id \in ClassifyInputs
    /\ classified = "none"
    /\ CountIdle

NextClassify == Classify

SpecClassify == InitClassify /\ [][NextClassify]_vars

\* counts.increment(&action_type)
Increment(action_type) ==
    /\ total(counts) < MaxTotal
    /\ counts' = increment(counts, action_type)
    /\ ratios' = <<>>
    /\ most_frequent' = "none"
    /\ UNCHANGED <<parseVars, classifyVars>>

\* the three ratios and most_frequent_action of the counts as they are
Evaluate ==
    /\ ratios = <<>>
    /\ ratios' = <<attack_ratio(counts), shield_ratio(counts), dodge_ratio(counts)>>
    /\ most_frequent' = most_frequent_action(counts)
    /\ UNCHANGED <<counts, parseVars, classifyVars>>

InitCounts == ParseIdle /\ ClassifyIdle /\ CountIdle

NextCounts ==
    \/ \E t \in ActionTypes : Increment(t)
    \/ Evaluate

SpecCounts == InitCounts /\ [][NextCounts]_vars

\* the same program on valid files that differ in their action ids
InitFreq == ParseStart(FreqFiles) /\ ClassifyIdle /\ CountIdle

SpecFreq == InitFreq /\ [][Next]_vars

\* the same program on files that differ in their header "ID,N"
InitHeader == ParseStart(HeaderFiles) /\ ClassifyIdle /\ CountIdle

SpecHeader == InitHeader /\ [][Next]_vars

-----------------------------------------------------------------------------
(* The file format, stated on the text of a line *)

CommaCount(text) == Cardinality({i \in 1..Len(text) : text[i] = ","})

IsBlank(text) == \A i \in 1..Len(text) : IsWhitespace(text[i])

AllDigits(t) == \A i \in 1..Len(t) : IsDigit(t[i])

\* the text before and after the only comma of a line with one comma
BeforeComma(text) ==
    SubSeq(text, 1, (CHOOSE i \in 1..Len(text) : text[i] = ",") - 1)

AfterComma(text) ==
    SubSeq(text, (CHOOSE i \in 1..Len(text) : text[i] = ",") + 1, Len(text))

\* t without its leading zeros
Significant(t) ==
    LET nz == {i \in 1..Len(t) : t[i] # "0"}
    IN  IF nz = {} THEN <<>> ELSE SubSeq(t, Min(nz), Len(t))

\* a strictly precedes b in the lexicographic order of their bytes
LexLess(a, b) ==
    \E k \in 1..(Len(b)) :
        /\ k <= Len(a) + 1
        /\ \A i \in 1..(k - 1) : a[i] = b[i]
        /\ (k = Len(a) + 1 \/ ByteOf(a[k]) < ByteOf(b[k]))

\* decimal digits, with an optional '+', of a value no greater than 4294967295
IsUnsignedText(t) ==
    LET d == IF t # <<>> /\ t[1] = "+" THEN Tail(t) ELSE t
        sig == Significant(d)
        top == <<"4", "2", "9", "4", "9", "6", "7", "2", "9", "5">>
    IN  /\ d # <<>>
        /\ AllDigits(d)
        /\ (Len(sig) < Len(top) \/ (Len(sig) = Len(top) /\ ~LexLess(top, sig)))

IsMantissaText(m) ==
    \/ m # <<>> /\ AllDigits(m)
    \/ \E k \in 1..Len(m) :
        /\ m[k] = "."
        /\ Len(m) >= 2
        /\ AllDigits(SubSeq(m, 1, k - 1))
        /\ AllDigits(SubSeq(m, k + 1, Len(m)))

IsExponentText(e) ==
    LET d == IF e # <<>> /\ e[1] \in {"+", "-"} THEN Tail(e) ELSE e
    IN  d # <<>> /\ AllDigits(d)

\* what str::parse::<f64> takes for a number
IsNumericText(t) ==
    LET b == IF t # <<>> /\ t[1] \in {"+", "-"} THEN Tail(t) ELSE t
        low == [i \in 1..Len(b) |-> ToLower(b[i])]
    IN  \/ IsMantissaText(b)
        \/ \E k \in 1..Len(b) :
            /\ low[k] = "e"
            /\ IsMantissaText(SubSeq(b, 1, k - 1))
            /\ IsExponentText(SubSeq(b, k + 1, Len(b)))
        \/ low \in {<<"n", "a", "n">>, <<"i", "n", "f">>,
                    <<"i", "n", "f", "i", "n", "i", "t", "y">>}

\* what is wrong with physical line i of the file, "none" if nothing is
LineFault(i) ==
    IF ~file[i].ok THEN "IoError"
    ELSE IF i > 1 /\ IsBlank(file[i].text) THEN "none"
    ELSE IF CommaCount(file[i].text) # 1 THEN "InvalidFormat"
    ELSE IF i = 1 /\ ~IsUnsignedText(Trim(AfterComma(file[i].text))) THEN "ParseError"
    ELSE IF i > 1 /\ ~IsNumericText(Trim(BeforeComma(file[i].text))) THEN "ParseError"
    ELSE "none"

FaultyLines == {i \in 1..Len(file) : LineFault(i) # "none"}

\* the physical lines after the header that are not blank
ActionLineNumbers == {i \in 2..Len(file) : file[i].ok /\ ~IsBlank(file[i].text)}

Returned == result.status # "Pending"

-----------------------------------------------------------------------------
(* C1 *)

\* C1: read_battle_log returns Ok exactly when the header is well-formed, every
\* later non-blank line is well-formed and there is at least one of them;
\* otherwise it returns the error of the first failure in file order (the
\* header's, else the earliest faulty line's, else EmptyData), having taken no
\* line past the failing one from the reader, and with no BattleLog at all.
C1_FirstFailureDecides ==
    Returned =>
        IF file = <<>> THEN
            /\ result.status = "Err" /\ result.err.kind = "EmptyData"
            /\ result.log = NoLog
        ELSE IF FaultyLines # {} THEN
            /\ result.status = "Err"
            /\ result.err.kind = LineFault(Min(FaultyLines))
            /\ pos = Min(FaultyLines)
            /\ result.log = NoLog
        ELSE IF ActionLineNumbers = {} THEN
            /\ result.status = "Err" /\ result.err.kind = "EmptyData"
            /\ result.log = NoLog
        ELSE
            /\ result.status = "Ok"
            /\ result.log # NoLog

\* a parse aborted by a faulty action line that has records before it and
\* lines after it
C1_Witness ==
    /\ Returned
    /\ result.status = "Err"
    /\ result.err.kind \in {"InvalidFormat", "ParseError", "IoError"}
    /\ actions # <<>>
    /\ 2 < pos /\ pos < Len(file)

-----------------------------------------------------------------------------
(* C2 *)

\* every line after the header was read and is blank (or there is none)
OnlyBlankAfterHeader ==
    /\ file # <<>>
    /\ LineFault(1) = "none"
    /\ \A i \in 2..Len(file) : file[i].ok /\ IsBlank(file[i].text)

\* C2: a file with no line at all fails with EmptyData, and so does a file
\* whose header is valid and whose other lines are all absent or blank; an Ok
\* result never carries an empty action sequence.
C2_EmptyData ==
    Returned =>
        /\ (file = <<>> \/ OnlyBlankAfterHeader) =>
               result.status = "Err" /\ result.err.kind = "EmptyData"
        /\ result.status = "Ok" => result.log.actions # <<>>

\* a valid header followed by blank lines only, read to the end
C2_Witness ==
    /\ Returned
    /\ OnlyBlankAfterHeader
    /\ Len(file) >= 3
    /\ pos = Len(file)
    /\ result.err.kind = "EmptyData"

-----------------------------------------------------------------------------
(* C3 *)

\* the blank lines between the header and physical line n
BlankLinesBefore(n) == {i \in 2..(n - 1) : file[i].ok /\ IsBlank(file[i].text)}

RejectedActionLine ==
    /\ Returned
    /\ result.status = "Err"
    /\ result.err.kind \in {"InvalidFormat", "ParseError"}
    /\ pos >= 2

\* C3: the line number in the error of a rejected action line is the line's
\* 1-based physical position in the file: the header is line 1 and every
\* blank line skipped before the rejected one is counted.
C3_PhysicalLineNumber ==
    RejectedActionLine =>
        LET n == result.err.line_number
        IN  /\ n = pos
            /\ n = 1 + Cardinality(BlankLinesBefore(pos)) + Len(actions) + 1
            /\ n \in 2..Len(file)
            /\ LineFault(n) = result.err.kind

\* a line rejected after a blank line was skipped and a record was kept
C3_Witness ==
    /\ RejectedActionLine
    /\ BlankLinesBefore(pos) # {}
    /\ actions # <<>>
    /\ result.err.line_number = 4

-----------------------------------------------------------------------------
(* C4 *)

\* the k-th smallest element of a set of numbers
RECURSIVE Nth(_, _)
Nth(S, k) == IF k = 1 THEN Min(S) ELSE Nth(S \ {Min(S)}, k - 1)

\* C4: the action sequence of an Ok result is not empty and holds one record
\* per non-blank line after the header, the k-th record made from the k-th
\* such line.
C4_RecordsInFileOrder ==
    result.status = "Ok" =>
        LET acts == result.log.actions
        IN  /\ acts # <<>>
            /\ Len(acts) = Cardinality(ActionLineNumbers)
            /\ \A k \in 1..Len(acts) :
                   LET text == file[Nth(ActionLineNumbers, k)].text
                   IN  /\ acts[k].original_id = Trim(AfterComma(text))
                       /\ acts[k].timestamp = ParseF64(Trim(BeforeComma(text))).val

\* two different records with a blank line between their lines
C4_Witness ==
    /\ result.status = "Ok"
    /\ Len(result.log.actions) = 2
    /\ result.log.actions[1] # result.log.actions[2]
    /\ Len(file) = 4
    /\ IsBlank(file[3].text)

-----------------------------------------------------------------------------
(* C5 *)

\* parse_player_info returned an error
HeaderRejected ==
    /\ result.status = "Err"
    /\ pos <= 1
    /\ (file = <<>> \/ result.err.kind # "EmptyData")

HeaderAccepted == pc # "start" /\ ~HeaderRejected

\* the header "ID,N" is parsed to student_id = ID.trim() and match_number = N
HeaderYields(id, n) ==
    (pc # "start" /\ file # <<>> /\ file[1] = Line(HeaderText(id, n))) =>
        HeaderAccepted /\ player_info = PlayerInfo_new(Trim(id), n)

\* C5 as stated: for every header "ID,N" with an integer N >= 0 and a comma-free
\* ID, parsing yields student_id = ID.trim() and match_number = N.
C5_AnyInteger ==
    \A id \in StudentIds, n \in MatchNumbers : HeaderYields(id, n)

\* C5 amended: the same for every N in 0 .. 4294967295, the range of u32.
C5_WithinU32 ==
    \A id \in StudentIds, n \in MatchNumbersU32 : HeaderYields(id, n)

\* the header " b,4294967295" parsed: the id trimmed, the largest u32 kept
C5_Witness ==
    /\ HeaderAccepted
    /\ file[1] = Line(HeaderText(<<" ", "b">>, U32_MAX))
    /\ player_info = PlayerInfo_new(<<"b">>, U32_MAX)

-----------------------------------------------------------------------------
(* C6 *)

\* the category the taxonomy gives an action id
TableCategory(id) ==
    IF id = <<"s">> THEN "Shield"
    ELSE IF id \in {<<"n", "d">>, <<"s", "d">>, <<"a", "d">>} THEN "Dodge"
    ELSE "Attack"

\* the text of the k-th non-blank line after the header
ActionLineText(k) == file[Nth(ActionLineNumbers, k)].text

\* C6 as stated: raw_code is the second field as split, untrimmed (here the
\* second field of the trimmed line, which is what parse_action_line splits).
C6_VerbatimCode ==
    result.status = "Ok" =>
        \A k \in 1..Len(result.log.actions) :
            result.log.actions[k].original_id = Split(Trim(ActionLineText(k)))[2]

\* C6 amended: raw_code is the second field with its leading and trailing
\* whitespace removed, and that string is the one classified and the one
\* counted in the frequency table.
C6_TrimmedCode ==
    analysis.done =>
        \A k \in 1..Len(result.log.actions) :
            LET id == Trim(AfterComma(ActionLineText(k)))
                same == {j \in 1..Len(result.log.actions) :
                            Trim(AfterComma(ActionLineText(j))) = id}
                table == analysis.value.action_id_counts
            IN  /\ result.log.actions[k].original_id = id
                /\ result.log.actions[k].action_type = TableCategory(id)
                /\ \E i \in 1..Len(table) : table[i] = <<id, Cardinality(same)>>

\* a record of a line whose second field has whitespace around the id
C6_Witness ==
    /\ analysis.done
    /\ \E k \in 1..Len(result.log.actions) :
        /\ AfterComma(ActionLineText(k)) # Trim(AfterComma(ActionLineText(k)))
        /\ result.log.actions[k].original_id = <<"n", "d">>
        /\ result.log.actions[k].action_type = "Dodge"

-----------------------------------------------------------------------------
(* C7 *)

\* C7: from_action_id returns one of Attack, Shield, Dodge for every string:
\* Shield exactly for "s", Dodge exactly for "nd", "sd", "ad", Attack for
\* every other string.
C7_ClassifyTotal ==
    classified # "none" =>
        /\ classified \in {"Attack", "Shield", "Dodge"}
        /\ (classified = "Shield") = (action_id = <<"s">>)
        /\ (classified = "Dodge") =
               (action_id \in {<<"n", "d">>, <<"s", "d">>, <<"a", "d">>})
        /\ (classified = "Attack") =
               (action_id \notin {<<"s">>, <<"n", "d">>, <<"s", "d">>, <<"a", "d">>})

\* a case variant of a dodge id, classified as Attack
C7_Witness == action_id = <<"N", "D">> /\ classified = "Attack"

-----------------------------------------------------------------------------
(* C8 *)

RECURSIVE SumCounts(_)
SumCounts(table) ==
    IF table = <<>> THEN 0 ELSE Head(table)[2] + SumCounts(Tail(table))

\* the records of a log in another order
Reordered(battle_log, perm) ==
    BattleLog_new(battle_log.player_info,
                  [k \in 1..Len(battle_log.actions) |-> battle_log.actions[perm[k]]])

\* C8: the frequency table holds each distinct raw code of the log once, with
\* the number of records that carry it; the counts add up to the number of
\* records; the entries go by count descending, then by code ascending in
\* lexicographic order; any reordering of the records gives the same table.
C8_FrequencyTable ==
    analysis.done =>
        LET acts == result.log.actions
            table == analysis.value.action_id_counts
            codes == {acts[k].original_id : k \in 1..Len(acts)}
        IN  /\ \A c \in codes :
                   Cardinality({i \in 1..Len(table) : table[i][1] = c}) = 1
            /\ \A i \in 1..Len(table) :
                   /\ table[i][1] \in codes
                   /\ table[i][2] =
                        Cardinality({k \in 1..Len(acts) : acts[k].original_id = table[i][1]})
            /\ SumCounts(table) = Len(acts)
            /\ \A i, j \in 1..Len(table) :
                   i < j =>
                       \/ table[i][2] > table[j][2]
                       \/ table[i][2] = table[j][2] /\ LexLess(table[i][1], table[j][1])
            /\ \A perm \in Permutations(1..Len(acts)) :
                   count_actions_by_id(Reordered(result.log, perm)) = table

\* the log us, ss, ds, ss: a count of 2 before a tie of two counts of 1
C8_Witness ==
    /\ analysis.done
    /\ [k \in 1..Len(result.log.actions) |-> result.log.actions[k].original_id]
           = << <<"u", "s">>, <<"s", "s">>, <<"d", "s">>, <<"s", "s">> >>
    /\ analysis.value.action_id_counts
           = << <<<<"s", "s">>, 2>>, <<<<"d", "s">>, 1>>, <<<<"u", "s">>, 1>> >>

-----------------------------------------------------------------------------
(* C9 *)

CountOf(c, action_type) ==
    CASE action_type = "Attack" -> c.attack_count
      [] action_type = "Shield" -> c.shield_count
      [] action_type = "Dodge" -> c.dodge_count

IsMaximal(c, action_type) ==
    \A t \in ActionTypes : CountOf(c, action_type) >= CountOf(c, t)

\* C9: most_frequent_action returns a category of maximal count, and among
\* several of maximal count Attack before Shield before Dodge: Shield only if
\* Attack is not maximal, Dodge only if it is strictly above both others.
C9_MostFrequent ==
    most_frequent # "none" =>
        /\ most_frequent \in ActionTypes
        /\ IsMaximal(counts, most_frequent)
        /\ IsMaximal(counts, "Attack") => most_frequent = "Attack"
        /\ (IsMaximal(counts, "Shield") /\ ~IsMaximal(counts, "Attack")) =>
               most_frequent = "Shield"
        /\ most_frequent = "Dodge" =>
               /\ counts.dodge_count > counts.attack_count
               /\ counts.dodge_count > counts.shield_count

\* Shield and Dodge tie above Attack, and Shield is returned
C9_Witness ==
    /\ counts = [attack_count |-> 1, shield_count |-> 2, dodge_count |-> 2]
    /\ most_frequent = "Shield"

-----------------------------------------------------------------------------
(* C10 *)

\* C10: the three ratios add up to 100 when the total is positive and are all
\* 0.0 when it is 0.  (The ratios are exact fractions here; the f64 values the
\* program computes are within rounding of them.)
C10_RatiosSum ==
    ratios # <<>> =>
        IF counts.attack_count + counts.shield_count + counts.dodge_count > 0
        THEN RatAdd(RatAdd(ratios[1], ratios[2]), ratios[3]) = <<100, 1>>
        ELSE ratios = <<RatZero, RatZero, RatZero>>

\* three equal counts: each ratio is a third of 100
C10_Witness ==
    /\ counts = [attack_count |-> 1, shield_count |-> 1, dodge_count |-> 1]
    /\ ratios = << <<100, 3>>, <<100, 3>>, <<100, 3>> >>

-----------------------------------------------------------------------------
(* C11 *)

\* the records of a sequence that carry a category
RecordsOf(acts, action_type) ==
    {k \in 1..Len(acts) : acts[k].action_type = action_type}

\* C11: after analyze, each of the three counters is the number of records
\* of its category, their total is the number of records and the sum of the
\* frequency table's counts, the result's player header is the log's header,
\* and the log is still the one read_battle_log built.
C11_CountersMatchRecords ==
    analysis.done =>
        LET acts == result.log.actions
            c == analysis.value.counts
        IN  /\ c.attack_count = Cardinality(RecordsOf(acts, "Attack"))
            /\ c.shield_count = Cardinality(RecordsOf(acts, "Shield"))
            /\ c.dodge_count = Cardinality(RecordsOf(acts, "Dodge"))
            /\ c.attack_count + c.shield_count + c.dodge_count = Len(acts)
            /\ SumCounts(analysis.value.action_id_counts) = Len(acts)
            /\ analysis.value.player_info = result.log.player_info
            /\ analysis.value.player_info = player_info
            /\ result = Ok(BattleLog_new(player_info, actions))

\* a log with one record of each category under a header whose id was trimmed
C11_Witness ==
    /\ analysis.done
    /\ analysis.value.counts =
           [attack_count |-> 1, shield_count |-> 1, dodge_count |-> 1]
    /\ analysis.value.player_info = PlayerInfo_new(<<"b", "1">>, <<0, 2>>)
    /\ Len(result.log.actions) = 3

====
